---- MODULE Spec2Model ----
(***************************************************************************)
(* Order lifecycle and payment reconciliation of the shop back end:        *)
(* CartService, OrdersService and PaymentsService over the relational      *)
(* store (tables products, cart, cart_items, orders, order_items,          *)
(* payments, returns) and the payment provider (checkout sessions,         *)
(* refunds).                                                               *)
(*                                                                         *)
(* Every handler is one action: the statements it awaits run in program    *)
(* order inside the action.  Amounts stored in the database are whole      *)
(* currency units; the provider's amounts are minor units (cents).         *)
(* Store statements succeed, except inside handleWebhook where a failing   *)
(* statement is an input (failAt); provider refund calls and the provider  *)
(* session request succeed or fail as an input of the handler.  What a     *)
(* handler returns or throws is an operator of the state it starts in and  *)
(* of its inputs (CancelOrderResult, ...).                                 *)
(***************************************************************************)
EXTENDS Integers, Sequences, FiniteSets, TLC

\* ---------------------------------------------------------------- bounds
NumUsers == 2
NumProducts == 2
MaxOrders == 2
MaxLifecycleOrders == 1
MaxSessions == 2
MaxPayments == 2
MaxReturns == 1
MaxQty == 1
MaxStock == 3
InitStock == 1
MaxCartCalls == 2

Users == 1..NumUsers
Products == 1..NumProducts

\* SQL NULL of a nullable numeric column (total_paid, discount_amount,
\* transaction_id, total_amount)
Null == 0 - 1
\* SQL NULL of promotion_code
NullCode == "null"

\* products.price at the start, in whole currency units (product p costs
\* 10 * p)
Price == [p \in Products |-> 10 * p]
\* discount (in cents) a promotion code takes off at the provider's page
PromoDiscountCents == 500
PromoCode == "SAVE5"

VARIABLES
    stock,        \* products.stock
    hasCart,      \* users with a row in cart
    cart,         \* cart_items: cart[u][p] = quantity of the line (0: no line)
    orders,       \* orders rows, id = index
    order_items,  \* order_items rows
    payments,     \* payments rows, id = index
    returns,      \* returns rows, id = index
    sessions,     \* provider: checkout sessions, id = index
    refundCount,  \* provider: successful refunds per payment intent
    cartSelected, \* per user: getOrCreateCartId calls that found no cart row
                  \* and have not yet run CREATE_CART
    extraCarts,   \* per user: rows of cart beyond the first
    shownTotal,   \* the order id and the total of the last getOrderById response
    price,        \* products.price
    cancelChecked,\* orders with a cancelOrder call that has passed its checks
                  \* and has not yet written
    refundRead,   \* per order: the completed payments an updateOrderStatus
                  \* call has selected and not yet refunded
    addRead       \* addItem calls that have read the line and the product
                  \* and have not yet written

\* the calls in flight
inFlight == <<cancelChecked, refundRead, addRead>>

vars == <<stock, hasCart, cart, orders, order_items, payments, returns,
          sessions, refundCount, cartSelected, extraCarts, shownTotal, price,
          cancelChecked, refundRead, addRead>>

\* ------------------------------------------------------------- helpers
RECURSIVE SumSeq(_)
SumSeq(s) == IF s = <<>> THEN 0 ELSE Head(s) + SumSeq(Tail(s))

ProductSeq == [i \in 1..NumProducts |-> i]

\* rows of GET_CART_ITEMS_BY_CART for the user's cart, as product ids
CartLines(u) == SelectSeq(ProductSeq, LAMBDA p : cart[u][p] > 0)

\* Math.round(price * 100): currency units to the provider's minor units
ToCents(amount) == amount * 100

\* variant: the provider's minor units are stored as they come
FromCents_unconverted(cents) == cents

\* Number((cents / 100).toFixed(2)): minor units to currency units
FromCents(cents) == cents \div 100

\* every table but orders is empty, every product has its first stock
InitOther ==
    /\ stock = [p \in Products |-> InitStock]
    /\ hasCart = {}
    /\ cart = [u \in Users |-> [p \in Products |-> 0]]
    /\ order_items = <<>>
    /\ payments = <<>>
    /\ returns = <<>>
    /\ sessions = <<>>
    /\ refundCount = [t \in 1..MaxSessions |-> 0]
    /\ cartSelected = [u \in Users |-> 0]
    /\ extraCarts = [u \in Users |-> 0]
    /\ shownTotal = [order_id |-> Null, total |-> Null]
    /\ price = Price
    /\ cancelChecked = {}
    /\ refundRead = {}
    /\ addRead = {}

\* the state after construction: no order
Init ==
    /\ InitOther
    /\ orders = <<>>


\* ---------------------------------------------------------------- cart
\* what addItem throws: invalid arguments, or not enough stock for the
\* quantity the line would get ("none" when it throws nothing)
AddItemError(u, p, q) ==
    IF q <= 0 THEN "invalid"
    ELSE IF cart[u][p] + q > stock[p] THEN "stock"
    ELSE "none"

\* variant: a second add of a product replaces the quantity of its line
CartAfterAdd_overwrites(u, p, q) ==
    IF q <= 0 \/ q > stock[p]
    THEN cart
    ELSE [cart EXCEPT ![u][p] = q]

\* the cart lines after addItem: UPDATE_CART_ITEM with the sum for a product
\* already in the cart, ADD_CART_ITEM with the quantity for a new one
CartAfterAdd(u, p, q) ==
    IF AddItemError(u, p, q) # "none"
    THEN cart
    ELSE [cart EXCEPT ![u][p] = cart[u][p] + q]

\* CartService.addItem
AddItem(u, p, q) ==
    IF q <= 0
    THEN UNCHANGED vars
    ELSE /\ hasCart' = hasCart \cup {u}
         /\ cart' = CartAfterAdd(u, p, q)
         /\ UNCHANGED <<price, inFlight, shownTotal, cartSelected, extraCarts, stock, orders, order_items, payments, returns,
                        sessions, refundCount>>

\* ------------------------------------------------------------ payments
\* the session stripe.checkout.sessions.create returns for an order
NewSession(o, total) ==
    [orderId |-> o, amount_total |-> ToCents(total),
     paid |-> FALSE, amount_discount |-> 0, payment_intent |-> Null,
     promotion_code |-> NullCode]

\* PaymentsService.createCheckoutSession; providerUp = the provider accepts
\* the request
CreateCheckoutSession(o, providerUp) ==
    /\ Len(sessions) < MaxSessions
    /\ sessions' = IF o \notin 1..Len(orders) \/ ~providerUp
                   THEN sessions
                   ELSE Append(sessions, NewSession(o, orders[o].total))
    /\ UNCHANGED <<price, inFlight, shownTotal, cartSelected, extraCarts, stock, hasCart, cart, orders, order_items, payments,
                   returns, refundCount>>

\* the orders row CREATE_ORDER inserts for the lines of the cart of user u
NewOrderRow(u, lines) ==
    [user_id |-> u, status |-> "pending",
     total |-> SumSeq([i \in 1..Len(lines) |->
                         price[lines[i]] * cart[u][lines[i]]]),
     total_paid |-> Null, discount_amount |-> Null,
     promotion_code |-> NullCode]

\* variant: the items carry the price the product had at the start
NewItemRows_firstPrice(u, lines) ==
    [i \in 1..Len(lines) |->
       [order_id |-> Len(orders) + 1, product_id |-> lines[i],
        quantity |-> cart[u][lines[i]], price |-> Price[lines[i]]]]

\* the order_items rows CREATE_ORDER_ITEM inserts, one per line, in order
NewItemRows(u, lines) ==
    [i \in 1..Len(lines) |->
       [order_id |-> Len(orders) + 1, product_id |-> lines[i],
        quantity |-> cart[u][lines[i]], price |-> price[lines[i]]]]

\* OrdersService.createOrder: the orders row and one order_items row per item
CreateOrderRows(u, lines) ==
    /\ orders' = Append(orders, NewOrderRow(u, lines))
    /\ order_items' = order_items \o NewItemRows(u, lines)

\* variant: checkout accepts a cart with no line
EmptyCartError_never(u) == FALSE

\* checkout throws: the cart has no line
EmptyCartError(u) == CartLines(u) = <<>>

\* variant: only the first line of the cart is compared with the stock
StockError_firstLineOnly(u) ==
    /\ CartLines(u) # <<>>
    /\ cart[u][CartLines(u)[1]] > stock[CartLines(u)[1]]

\* checkout throws: the quantity of a line exceeds the product's stock
StockError(u) ==
    \E i \in 1..Len(CartLines(u)) :
        cart[u][CartLines(u)[i]] > stock[CartLines(u)[i]]

\* checkout throws before it creates the order
CheckoutError(u, addressId, frontendUrl) ==
    \/ addressId = 0
    \/ frontendUrl = ""
    \/ EmptyCartError(u)
    \/ StockError(u)

\* what checkout returns (ok, with the id of the new order) or that it throws
\* (a provider that rejects the session request makes it throw after the
\* order was created)
CheckoutResult(u, addressId, frontendUrl, providerUp) ==
    IF CheckoutError(u, addressId, frontendUrl)
    THEN [ok |-> FALSE, orderId |-> Null]
    ELSE [ok |-> providerUp, orderId |-> Len(orders) + 1]

\* variant: a checkout that creates the order empties the cart
Checkout_emptiesCart(u, addressId, frontendUrl, providerUp) ==
    /\ Len(orders) < MaxOrders
    /\ Len(sessions) < MaxSessions
    /\ UNCHANGED <<price, inFlight, shownTotal, cartSelected, extraCarts, stock, payments, returns, refundCount>>
    /\ IF addressId = 0 \/ frontendUrl = ""
       THEN UNCHANGED <<hasCart, cart, orders, order_items, sessions>>
       ELSE /\ hasCart' = hasCart \cup {u}
            /\ LET lines == CartLines(u) IN
               IF \/ lines = <<>>
                  \/ \E i \in 1..Len(lines) : cart[u][lines[i]] > stock[lines[i]]
               THEN UNCHANGED <<cart, orders, order_items, sessions>>
               ELSE /\ CreateOrderRows(u, lines)
                    /\ cart' = [cart EXCEPT ![u] = [p \in Products |-> 0]]
                    /\ sessions' = IF providerUp
                                   THEN Append(sessions,
                                          NewSession(Len(orders) + 1,
                                                     orders'[Len(orders) + 1].total))
                                   ELSE sessions

\* CartService.checkout
Checkout(u, addressId, frontendUrl, providerUp) ==
    /\ Len(orders) < MaxOrders
    /\ Len(sessions) < MaxSessions
    /\ UNCHANGED <<price, inFlight, shownTotal, cartSelected, extraCarts, stock, cart, payments, returns, refundCount>>
    /\ IF addressId = 0 \/ frontendUrl = ""
       THEN UNCHANGED <<hasCart, orders, order_items, sessions>>
       ELSE /\ hasCart' = hasCart \cup {u}
            /\ LET lines == CartLines(u) IN
               IF EmptyCartError(u) \/ StockError(u)
               THEN UNCHANGED <<orders, order_items, sessions>>
               ELSE /\ CreateOrderRows(u, lines)
                    /\ sessions' = IF providerUp
                                   THEN Append(sessions,
                                          NewSession(Len(orders) + 1,
                                                     orders'[Len(orders) + 1].total))
                                   ELSE sessions

\* the customer pays a session on the provider's hosted page, with no
\* promotion code, with a promotion code, or with a 100% coupon (nothing is
\* charged and the session has no payment intent)
PaySession(s, coupon) ==
    /\ s \in 1..Len(sessions)
    /\ ~sessions[s].paid
    /\ LET d == CASE coupon = "none" -> 0
                  [] coupon = "promo" -> PromoDiscountCents
                  [] OTHER -> sessions[s].amount_total
           due == sessions[s].amount_total - d
       IN  sessions' = [sessions EXCEPT ![s] =
               [orderId |-> sessions[s].orderId, amount_total |-> due,
                paid |-> TRUE, amount_discount |-> d,
                payment_intent |-> IF due = 0 THEN Null ELSE s,
                promotion_code |-> IF coupon = "none" THEN NullCode ELSE PromoCode]]
    /\ UNCHANGED <<price, inFlight, shownTotal, cartSelected, extraCarts, stock, hasCart, cart, orders, order_items, payments,
                   returns, refundCount>>

\* variant: deleteCart leaves the cart lines
CartAfterDelete_keepsItems(u) == cart

\* CartService.deleteCart: cart_items after DELETE_CART_BY_USER
CartAfterDelete(u) == [cart EXCEPT ![u] = [p \in Products |-> 0]]

\* statements of handleWebhook, in program order; failAt names the first one
\* that throws
WebhookSteps == <<"status", "insert", "totals", "user", "cart", "invoice", "none">>

StepIndex(step) == CHOOSE i \in 1..Len(WebhookSteps) : WebhookSteps[i] = step

\* the statement named step ran before the handler stopped at failAt
\* (a failing deleteCart is caught and the handler goes on)
Ran(step, failAt) ==
    \/ StepIndex(step) < StepIndex(failAt)
    \/ failAt = "cart" /\ step # "cart"

\* the payments row handleWebhook inserts for a session
PaymentRecord(ses) ==
    [order_id |-> ses.orderId,
     transaction_id |-> ses.payment_intent,
     amount |-> FromCents(ses.amount_total),
     status |-> "completed",
     discount_amount |-> IF ses.amount_discount # 0
                         THEN FromCents(ses.amount_discount) ELSE 0,
     promotion_code |-> ses.promotion_code]

\* INSERT_PAYMENT_RECORD
InsertPayment(ses) == Append(payments, PaymentRecord(ses))

\* variant: the totals update writes the amount paid and the code only
UpdateOrderTotals_paidOnly(ords, ses) ==
    [ords EXCEPT ![ses.orderId].total_paid = PaymentRecord(ses).amount,
                 ![ses.orderId].promotion_code = PaymentRecord(ses).promotion_code]

\* UPDATE_ORDER_TOTALS
UpdateOrderTotals(ords, ses) ==
    [ords EXCEPT ![ses.orderId].total_paid = PaymentRecord(ses).amount,
                 ![ses.orderId].discount_amount = PaymentRecord(ses).discount_amount,
                 ![ses.orderId].promotion_code = PaymentRecord(ses).promotion_code]

\* handleWebhook returns (TRUE) or throws (FALSE)
HandleWebhookResult(failAt) == failAt \in {"none", "cart"}

\* PaymentsService.handleWebhook for the event of session s
HandleWebhook(s, etype, failAt) ==
    /\ s \in 1..Len(sessions)
    /\ sessions[s].paid
    /\ UNCHANGED <<price, inFlight, shownTotal, cartSelected, stock, order_items, returns, sessions, refundCount>>
    /\ IF etype # "checkout.session.completed"
       THEN UNCHANGED <<hasCart, cart, extraCarts, orders, payments>>
       ELSE LET ses == sessions[s]
                u == orders[ses.orderId].user_id
                o1 == IF Ran("status", failAt)
                      THEN [orders EXCEPT ![ses.orderId].status = "completed"]
                      ELSE orders
            IN  /\ Len(payments) < MaxPayments
                /\ orders' = IF Ran("totals", failAt)
                             THEN UpdateOrderTotals(o1, ses) ELSE o1
                /\ payments' = IF Ran("insert", failAt)
                               THEN InsertPayment(ses) ELSE payments
                /\ IF Ran("cart", failAt)
                   THEN /\ hasCart' = hasCart \ {u}
                        /\ cart' = CartAfterDelete(u)
                        /\ extraCarts' = [extraCarts EXCEPT ![u] = 0]
                   ELSE UNCHANGED <<hasCart, cart, extraCarts>>

\* -------------------------------------------------------------- orders
Range(f) == {f[i] : i \in DOMAIN f}

PaymentIds == [i \in 1..Len(payments) |-> i]

\* SELECT id, transaction_id, amount, status FROM payments
\* WHERE order_id = ? AND status = "completed"
CompletedPayments(o) ==
    SelectSeq(PaymentIds, LAMBDA i : /\ payments[i].order_id = o
                                     /\ payments[i].status = "completed")

\* the rows of the refund loop for which stripe.refunds.create is called
RefundAttempts(o) ==
    SelectSeq(CompletedPayments(o), LAMBDA i : payments[i].transaction_id # Null)

\* variant: every attempted row is marked refunded, confirmed or not
PaymentsAfterRefund_unconfirmed(o, okSet) ==
    [i \in 1..Len(payments) |->
        IF i \in Range(RefundAttempts(o))
        THEN [payments[i] EXCEPT !.status = "refunded"]
        ELSE payments[i]]

\* variant: a row whose refund the provider rejects is marked failed
PaymentsAfterRefund_failedOnError(o, okSet) ==
    [i \in 1..Len(payments) |->
        IF i \in Range(RefundAttempts(o))
        THEN [payments[i] EXCEPT !.status =
                 IF i \in okSet THEN "refunded" ELSE "failed"]
        ELSE payments[i]]

\* payments after the refund loop; okSet = the rows whose refund the provider
\* confirms, the call for every other row throws and is caught
PaymentsAfterRefund(o, okSet) ==
    [i \in 1..Len(payments) |->
        IF i \in Range(RefundAttempts(o)) /\ i \in okSet
        THEN [payments[i] EXCEPT !.status = "refunded"]
        ELSE payments[i]]

\* the provider's refunds after the loop
RefundCountAfter(o, okSet) ==
    [t \in DOMAIN refundCount |->
        refundCount[t] + Cardinality({i \in Range(RefundAttempts(o)) \cap okSet :
                                         payments[i].transaction_id = t})]

\* the stripe.refunds.create calls of the loop, in order, with their outcome
RefundCalls(o, okSet) ==
    [k \in 1..Len(RefundAttempts(o)) |->
        [payment |-> RefundAttempts(o)[k],
         payment_intent |-> payments[RefundAttempts(o)[k]].transaction_id,
         ok |-> RefundAttempts(o)[k] \in okSet]]

\* variant: the amount of every attempted row is added, confirmed or not
RefundedTotal_allAttempts(o, okSet) ==
    SumSeq([k \in 1..Len(RefundAttempts(o)) |->
              payments[RefundAttempts(o)[k]].amount])

\* refundedTotal of cancelOrder
RefundedTotal(o, okSet) ==
    SumSeq([k \in 1..Len(RefundAttempts(o)) |->
              IF RefundAttempts(o)[k] \in okSet
              THEN payments[RefundAttempts(o)[k]].amount ELSE 0])

\* what updateOrderStatus returns, and the refund calls it makes; mailUp = the
\* mail dispatcher delivers (the senders catch its failure)
UpdateOrderStatusResult(o, status, okSet, mailUp) ==
    [ok |-> TRUE,
     calls |-> IF o \in 1..Len(orders) /\ status = "returned"
               THEN RefundCalls(o, okSet) ELSE <<>>]

\* variant: setting an order to returned puts its items back in stock
UpdateOrderStatus_restocksOnReturn(o, status, okSet) ==
    /\ UNCHANGED <<price, inFlight, shownTotal, cartSelected, extraCarts, hasCart, cart, order_items, returns, sessions>>
    /\ IF o \notin 1..Len(orders)
       THEN /\ okSet = {}
            /\ UNCHANGED <<stock, orders, payments, refundCount>>
       ELSE /\ orders' = [orders EXCEPT ![o].status = status]
            /\ IF status = "returned"
               THEN /\ okSet \subseteq Range(RefundAttempts(o))
                    /\ payments' = PaymentsAfterRefund(o, okSet)
                    /\ refundCount' = RefundCountAfter(o, okSet)
                    /\ stock' =
                         [p \in Products |->
                            stock[p] + SumSeq([k \in 1..Len(order_items) |->
                               IF /\ order_items[k].order_id = o
                                  /\ order_items[k].product_id = p
                               THEN order_items[k].quantity ELSE 0])]
                    /\ \A p \in Products : stock'[p] <= MaxStock
               ELSE /\ okSet = {}
                    /\ UNCHANGED <<stock, payments, refundCount>>

\* OrdersService.updateOrderStatus
UpdateOrderStatus(o, status, okSet) ==
    /\ UNCHANGED <<price, inFlight, shownTotal, cartSelected, extraCarts, stock, hasCart, cart, order_items, returns, sessions>>
    /\ IF o \notin 1..Len(orders)
       THEN /\ okSet = {}
            /\ UNCHANGED <<orders, payments, refundCount>>
       ELSE /\ orders' = [orders EXCEPT ![o].status = status]
            /\ IF status = "returned"
               THEN /\ okSet \subseteq Range(RefundAttempts(o))
                    /\ payments' = PaymentsAfterRefund(o, okSet)
                    /\ refundCount' = RefundCountAfter(o, okSet)
               ELSE /\ okSet = {}
                    /\ UNCHANGED <<payments, refundCount>>

\* variant: a shipped order can be cancelled
forbidden_withoutShipped ==
    {"completed", "returned", "cancelled", "awaiting_return"}

\* statuses in which cancelOrder refuses to cancel
forbidden == {"shipped", "completed", "returned", "cancelled", "awaiting_return"}

\* variant: the order is looked up by its id alone
CancelOrderError_anyUser(o, u) ==
    \/ o \notin 1..Len(orders)
    \/ orders[o].status \in forbidden

\* cancelOrder throws: no such order of this user, or a forbidden status
CancelOrderError(o, u) ==
    \/ o \notin 1..Len(orders)
    \/ orders[o].user_id # u
    \/ orders[o].status \in forbidden

\* which error cancelOrder throws: 'Pedido no encontrado o no pertenece al
\* usuario', 'No es posible cancelar este pedido en su estado actual', or none
CancelOrderErrorKind(o, u) ==
    IF o \notin 1..Len(orders) \/ orders[o].user_id # u THEN "notfound"
    ELSE IF orders[o].status \in forbidden THEN "status"
    ELSE "none"

\* variant: a failed refund or a failed mail makes cancelOrder throw
CancelOrderResult_throwing(o, u, okSet, mailUp) ==
    IF CancelOrderError(o, u)
    THEN [ok |-> FALSE, refundedAmount |-> 0, calls |-> <<>>]
    ELSE [ok |-> mailUp /\ okSet = Range(RefundAttempts(o)),
          refundedAmount |-> RefundedTotal(o, okSet),
          calls |-> RefundCalls(o, okSet)]

\* what cancelOrder returns, and the refund calls it makes
CancelOrderResult(o, u, okSet, mailUp) ==
    IF CancelOrderError(o, u)
    THEN [ok |-> FALSE, refundedAmount |-> 0, calls |-> <<>>]
    ELSE [ok |-> TRUE, refundedAmount |-> RefundedTotal(o, okSet),
          calls |-> RefundCalls(o, okSet)]

\* variant: every item is put back twice
Restock_twice(o) ==
    [p \in Products |->
        stock[p] + 2 * SumSeq([k \in 1..Len(order_items) |->
                                 IF /\ order_items[k].order_id = o
                                    /\ order_items[k].product_id = p
                                 THEN order_items[k].quantity ELSE 0])]

\* the quantities cancelOrder puts back: stock = stock + quantity per item
Restock(o) ==
    [p \in Products |->
        stock[p] + SumSeq([k \in 1..Len(order_items) |->
                             IF /\ order_items[k].order_id = o
                                /\ order_items[k].product_id = p
                             THEN order_items[k].quantity ELSE 0])]

\* OrdersService.cancelOrder
CancelOrder(o, u, okSet) ==
    /\ UNCHANGED <<price, inFlight, shownTotal, cartSelected, extraCarts, hasCart, cart, order_items, returns, sessions>>
    /\ IF CancelOrderError(o, u)
       THEN /\ okSet = {}
            /\ UNCHANGED <<stock, orders, payments, refundCount>>
       ELSE /\ \A p \in Products : Restock(o)[p] <= MaxStock
            /\ orders' = [orders EXCEPT ![o].status = "cancelled"]
            /\ stock' = Restock(o)
            /\ okSet \subseteq Range(RefundAttempts(o))
            /\ payments' = PaymentsAfterRefund(o, okSet)
            /\ refundCount' = RefundCountAfter(o, okSet)

\* variant: a return can be requested in any order status
RequestReturnError_anyStatus(o, u) ==
    \/ o \notin 1..Len(orders)
    \/ orders[o].user_id # u

\* requestReturn throws: no such order of this user, or not shipped/completed
RequestReturnError(o, u) ==
    \/ o \notin 1..Len(orders)
    \/ orders[o].user_id # u
    \/ orders[o].status \notin {"shipped", "completed"}

\* what requestReturn returns (ok, with the id of the new returns row) or
\* that it throws
RequestReturnResult(o, u) ==
    IF RequestReturnError(o, u)
    THEN [ok |-> FALSE, returnId |-> Null]
    ELSE [ok |-> TRUE, returnId |-> Len(returns) + 1]

\* OrdersService.requestReturn
RequestReturn(o, u) ==
    /\ Len(returns) < MaxReturns
    /\ UNCHANGED <<price, inFlight, shownTotal, cartSelected, extraCarts, stock, hasCart, cart, orders, order_items, payments,
                   sessions, refundCount>>
    /\ returns' = IF RequestReturnError(o, u)
                  THEN returns
                  ELSE Append(returns,
                         [order_id |-> o, user_id |-> u,
                          total_amount |-> orders[o].total_paid,
                          status |-> "pending"])

\* variant: rejecting a return puts the order back to delivered
UpdateReturnStatus_rejectTouchesOrder(r, status) ==
    /\ UNCHANGED <<price, inFlight, shownTotal, cartSelected, extraCarts, stock, hasCart, cart, order_items, payments, sessions,
                   refundCount>>
    /\ IF r \notin 1..Len(returns)
       THEN UNCHANGED <<orders, returns>>
       ELSE /\ returns' = [returns EXCEPT ![r].status = status]
            /\ orders' = [orders EXCEPT ![returns[r].order_id].status =
                              IF status = "approved" THEN "awaiting_return"
                              ELSE "delivered"]

\* variant: approving a return refunds the order's payments at once
UpdateReturnStatus_refunding(r, status) ==
    /\ UNCHANGED <<price, inFlight, shownTotal, cartSelected, extraCarts, stock, hasCart, cart, order_items, sessions>>
    /\ IF r \notin 1..Len(returns)
       THEN UNCHANGED <<orders, returns, payments, refundCount>>
       ELSE /\ returns' = [returns EXCEPT ![r].status = status]
            /\ IF status = "approved"
               THEN /\ orders' = [orders EXCEPT ![returns[r].order_id].status =
                                                    "awaiting_return"]
                    /\ payments' = PaymentsAfterRefund(returns[r].order_id,
                                       Range(RefundAttempts(returns[r].order_id)))
                    /\ refundCount' = RefundCountAfter(returns[r].order_id,
                                       Range(RefundAttempts(returns[r].order_id)))
               ELSE UNCHANGED <<orders, payments, refundCount>>

\* OrdersService.updateReturnStatus
UpdateReturnStatus(r, status) ==
    /\ UNCHANGED <<price, inFlight, shownTotal, cartSelected, extraCarts, stock, hasCart, cart, order_items, payments, sessions,
                   refundCount>>
    /\ IF r \notin 1..Len(returns)
       THEN UNCHANGED <<orders, returns>>
       ELSE /\ returns' = [returns EXCEPT ![r].status = status]
            /\ orders' = IF status = "approved"
                         THEN [orders EXCEPT ![returns[r].order_id].status =
                                                 "awaiting_return"]
                         ELSE orders

\* ---------------------------------------------------- cart maintenance
\* ProductsService.updateProduct: the admin sets the stock, the price, or
\* both (Null: the field is not in the request)
UpdateProduct(p, newStock, newPrice) ==
    /\ stock' = IF newStock = Null THEN stock
                ELSE [stock EXCEPT ![p] = newStock]
    /\ price' = IF newPrice = Null THEN price
                ELSE [price EXCEPT ![p] = newPrice]
    /\ UNCHANGED <<inFlight, shownTotal, hasCart, cart, cartSelected, extraCarts,
                   orders, order_items, payments, returns, sessions,
                   refundCount>>

\* a cart line is the row of cart_items of one product in the cart of its
\* owner; itemId names the line (owner, p), which exists when its quantity
\* is positive.  What updateItem throws ("none" when it throws nothing)
UpdateItemError(u, owner, p, q) ==
    IF q <= 0 THEN "invalid"
    ELSE IF owner # u \/ cart[owner][p] = 0 THEN "notfound"
    ELSE IF q > stock[p] THEN "stock"
    ELSE "none"

\* variant: the line is looked up by its id alone, in any cart
CartAfterUpdate_anyOwner(u, owner, p, q) ==
    IF q <= 0 \/ cart[owner][p] = 0 \/ q > stock[p]
    THEN cart
    ELSE [cart EXCEPT ![owner][p] = q]

\* the cart lines after updateItem: UPDATE_CART_ITEM with the given quantity
CartAfterUpdate(u, owner, p, q) ==
    IF UpdateItemError(u, owner, p, q) # "none"
    THEN cart
    ELSE [cart EXCEPT ![u][p] = q]

\* CartService.updateItem
UpdateItem(u, owner, p, q) ==
    IF q <= 0
    THEN UNCHANGED vars
    ELSE /\ hasCart' = hasCart \cup {u}
         /\ cart' = CartAfterUpdate(u, owner, p, q)
         /\ UNCHANGED <<price, inFlight, shownTotal, cartSelected, extraCarts, stock, orders, order_items,
                        payments, returns, sessions, refundCount>>

\* variant: the line is deleted by its id alone, in any cart
CartAfterRemove_anyOwner(u, owner, p) == [cart EXCEPT ![owner][p] = 0]

\* the cart lines after removeItem: DELETE_CART_ITEM deletes the line when it
\* is in the caller's cart and nothing otherwise
CartAfterRemove(u, owner, p) ==
    IF owner = u
    THEN [cart EXCEPT ![u][p] = 0]
    ELSE cart

\* what removeItem throws: it has no check and no throw
RemoveItemError(u, owner, p) == "none"

\* CartService.removeItem
RemoveItem(u, owner, p) ==
    /\ hasCart' = hasCart \cup {u}
    /\ cart' = CartAfterRemove(u, owner, p)
    /\ UNCHANGED <<price, inFlight, shownTotal, cartSelected, extraCarts, stock, orders, order_items,
                   payments, returns, sessions, refundCount>>

\* DELETE /cart: emptyCart calls CartService.deleteCart, which deletes every
\* cart row of the user and, with them, their lines
EmptyCart(u) ==
    /\ hasCart' = hasCart \ {u}
    /\ cart' = CartAfterDelete(u)
    /\ extraCarts' = [extraCarts EXCEPT ![u] = 0]
    /\ UNCHANGED <<price, inFlight, shownTotal, cartSelected, stock, orders, order_items, payments, returns,
                   sessions, refundCount>>

\* getOrCreateCartId, first statement, in a call that runs while another call
\* for the same user is between its two statements: GET_CART_BY_USER finds
\* no row
GetCartSelect(u) ==
    /\ u \notin hasCart
    /\ cartSelected[u] < MaxCartCalls
    /\ cartSelected' = [cartSelected EXCEPT ![u] = cartSelected[u] + 1]
    /\ UNCHANGED <<price, inFlight, shownTotal, hasCart, cart, extraCarts, stock, orders, order_items,
                   payments, returns, sessions, refundCount>>

\* getOrCreateCartId, second statement of such a call: CREATE_CART inserts a
\* row, whether or not the user has got one in the meantime
GetCartInsert(u) ==
    /\ cartSelected[u] > 0
    /\ cartSelected' = [cartSelected EXCEPT ![u] = cartSelected[u] - 1]
    /\ IF u \in hasCart
       THEN /\ extraCarts' = [extraCarts EXCEPT ![u] = extraCarts[u] + 1]
            /\ UNCHANGED hasCart
       ELSE /\ hasCart' = hasCart \cup {u}
            /\ UNCHANGED extraCarts
    /\ UNCHANGED <<price, inFlight, shownTotal, cart, stock, orders, order_items, payments, returns,
                   sessions, refundCount>>

\* checkout in which OrdersService.createOrder fails at the insert of item
\* k + 1: the orders row and the first k order_items rows are stored, the
\* error propagates and no payment session is requested
CheckoutItemInsertFails(u, addressId, frontendUrl, k) ==
    /\ Len(orders) < MaxOrders
    /\ ~CheckoutError(u, addressId, frontendUrl)
    /\ k < Len(CartLines(u))
    /\ hasCart' = hasCart \cup {u}
    /\ orders' = Append(orders, NewOrderRow(u, CartLines(u)))
    /\ order_items' = order_items \o SubSeq(NewItemRows(u, CartLines(u)), 1, k)
    /\ UNCHANGED <<price, inFlight, shownTotal, cart, cartSelected, extraCarts, stock, payments, returns,
                   sessions, refundCount>>

\* ------------------------------------------------- interleaved calls
\* cancelOrder up to its checks, in a call that runs while other calls for
\* the same order do: the order is the caller's and its status is not
\* forbidden
CancelOrderCheck(o, u) ==
    /\ ~CancelOrderError(o, u)
    /\ o \notin cancelChecked
    /\ cancelChecked' = cancelChecked \cup {o}
    /\ UNCHANGED <<price, refundRead, addRead, shownTotal, cartSelected,
                   extraCarts, stock, hasCart, cart, orders, order_items,
                   payments, returns, sessions, refundCount>>

\* the rest of such a call: the status update, the restock of every item
\* and the refund loop, whatever happened to the order since the checks
CancelOrderWrite(o, okSet) ==
    /\ o \in cancelChecked
    /\ cancelChecked' = cancelChecked \ {o}
    /\ \A p \in Products : Restock(o)[p] <= MaxStock
    /\ orders' = [orders EXCEPT ![o].status = "cancelled"]
    /\ stock' = Restock(o)
    /\ okSet \subseteq Range(RefundAttempts(o))
    /\ payments' = PaymentsAfterRefund(o, okSet)
    /\ refundCount' = RefundCountAfter(o, okSet)
    /\ UNCHANGED <<price, refundRead, addRead, shownTotal, cartSelected,
                   extraCarts, hasCart, cart, order_items, returns, sessions>>

\* updateOrderStatus(returned) up to the select of the completed payments,
\* in a call that runs while other calls for the same order do
UpdateOrderStatusSelect(o) ==
    /\ o \in 1..Len(orders)
    /\ \A r \in refundRead : r.order # o
    /\ orders' = [orders EXCEPT ![o].status = "returned"]
    /\ refundRead' = refundRead \cup
                       {[order |-> o, rows |-> Range(RefundAttempts(o))]}
    /\ UNCHANGED <<price, cancelChecked, addRead, shownTotal, cartSelected,
                   extraCarts, stock, hasCart, cart, order_items, payments,
                   returns, sessions, refundCount>>

\* the refund loop of such a call, over the rows it selected: every row
\* whose refund the provider confirms (okSet) is updated to refunded
UpdateOrderStatusRefund(o, okSet) ==
    \E r \in refundRead :
       /\ r.order = o
       /\ okSet \subseteq r.rows
       /\ refundRead' = refundRead \ {r}
       /\ payments' = [i \in 1..Len(payments) |->
                         IF i \in okSet
                         THEN [payments[i] EXCEPT !.status = "refunded"]
                         ELSE payments[i]]
       /\ refundCount' =
             [t \in DOMAIN refundCount |->
                refundCount[t] +
                Cardinality({i \in okSet : payments[i].transaction_id = t})]
       /\ UNCHANGED <<price, cancelChecked, addRead, shownTotal, cartSelected,
                      extraCarts, stock, hasCart, cart, orders, order_items,
                      returns, sessions>>

\* addItem up to its reads, in a call that runs while another addItem of the
\* same user does: the product is in the cart with quantity seen, and
\* seen + q is within the stock
AddItemRead(u, p, q) ==
    /\ q > 0
    /\ u \in hasCart
    /\ cart[u][p] > 0
    /\ cart[u][p] + q <= stock[p]
    /\ addRead = {}
    /\ addRead' = {[user |-> u, product |-> p, quantity |-> q,
                    seen |-> cart[u][p]]}
    /\ UNCHANGED <<price, cancelChecked, refundRead, shownTotal, cartSelected,
                   extraCarts, stock, hasCart, cart, orders, order_items,
                   payments, returns, sessions, refundCount>>

\* the write of such a call: UPDATE_CART_ITEM with seen + q on the line it
\* found
AddItemWrite(r) ==
    /\ r \in addRead
    /\ addRead' = addRead \ {r}
    /\ cart' = IF cart[r.user][r.product] > 0
               THEN [cart EXCEPT ![r.user][r.product] = r.seen + r.quantity]
               ELSE cart
    /\ UNCHANGED <<price, cancelChecked, refundRead, shownTotal, cartSelected,
                   extraCarts, stock, hasCart, orders, order_items, payments,
                   returns, sessions, refundCount>>

\* POST /orders: OrdersService.createOrder with the items and the total of
\* the request body
CreateOrder(u, items, total) ==
    /\ Len(orders) < MaxOrders
    /\ orders' = Append(orders,
                        [user_id |-> u, status |-> "pending", total |-> total,
                         total_paid |-> Null, discount_amount |-> Null,
                         promotion_code |-> NullCode])
    /\ order_items' = order_items \o
                        [i \in 1..Len(items) |->
                           [order_id |-> Len(orders) + 1,
                            product_id |-> items[i].product_id,
                            quantity |-> items[i].quantity,
                            price |-> items[i].price]]
    /\ UNCHANGED <<price, inFlight, shownTotal, cartSelected, extraCarts,
                   stock, hasCart, cart, payments, returns, sessions,
                   refundCount>>

\* ------------------------------------------------------- order reads
Abs(x) == IF x < 0 THEN 0 - x ELSE x

\* variant: the sum is returned whenever both fields are set
reconstructOriginalTotal_wheneverSet(dbTotal, dbTotalPaid, dbDiscount) ==
    IF dbTotalPaid # Null /\ dbDiscount # Null
    THEN dbTotalPaid + dbDiscount
    ELSE dbTotal

\* reconstructOriginalTotal; amounts are whole currency units, so the
\* tolerance Math.abs(dbTotal - dbTotalPaid) < 0.0001 is taken in
\* ten-thousandths and toFixed(2) changes nothing
reconstructOriginalTotal(dbTotal, dbTotalPaid, dbDiscount) ==
    IF dbTotalPaid # Null /\ dbDiscount # Null
    THEN IF Abs(dbTotal - dbTotalPaid) * 10000 < 1
         THEN dbTotalPaid + dbDiscount
         ELSE dbTotal
    ELSE dbTotal

\* OrdersService.getOrderById: throws when the order does not exist, else
\* answers with the reconstructed total
GetOrderById(o) ==
    IF o \notin 1..Len(orders)
    THEN UNCHANGED vars
    ELSE /\ shownTotal' =
              [order_id |-> o,
               total |-> reconstructOriginalTotal(orders[o].total,
                                                  orders[o].total_paid,
                                                  orders[o].discount_amount)]
         /\ UNCHANGED <<price, inFlight, stock, hasCart, cart, orders,
                        order_items, payments, returns, sessions, refundCount,
                        cartSelected, extraCarts>>

\* ------------------------------------------------------ specifications
OrderIds == 1..MaxOrders
SessionIds == 1..MaxSessions
OkSets == SUBSET (1..MaxPayments)
Coupons == {"none", "promo", "free"}
EventTypes == {"checkout.session.completed", "payment_intent.succeeded"}

\* cart, checkout and payment reconciliation
NextPay ==
    \/ \E u \in Users, p \in Products, q \in 0..MaxQty : AddItem(u, p, q)
    \/ \E u \in Users, a \in 0..1, f \in {"", "https://shop"}, up \in BOOLEAN :
          Checkout(u, a, f, up)
    \/ \E o \in OrderIds, up \in BOOLEAN : CreateCheckoutSession(o, up)
    \/ \E s \in SessionIds, c \in Coupons : PaySession(s, c)
    \/ \E s \in SessionIds, e \in EventTypes, f \in Range(WebhookSteps) :
          HandleWebhook(s, e, f)

SpecPay == Init /\ [][NextPay]_vars

\* statuses the admin sets through PUT /orders/:id/status
AdminStatuses == {"processing", "shipped", "delivered", "returned"}

\* the lifecycle of the orders of one customer, who fills the cart, checks
\* out and pays in full or with a 100% coupon; every store statement of the
\* webhook succeeds; user 2 calls cancelOrder and requestReturn on orders
\* that are not theirs
LifecycleCoupons == {"none", "free"}

Next ==
    \/ \E p \in Products, q \in 0..MaxQty :
          Len(orders) < MaxLifecycleOrders /\ AddItem(1, p, q)
    \/ \E a \in 0..1, f \in {"", "https://shop"}, up \in BOOLEAN :
          Len(orders) < MaxLifecycleOrders /\ Checkout(1, a, f, up)
    \/ \E o \in OrderIds, up \in BOOLEAN : CreateCheckoutSession(o, up)
    \/ \E s \in SessionIds, c \in LifecycleCoupons : PaySession(s, c)
    \/ \E s \in SessionIds, e \in EventTypes : HandleWebhook(s, e, "none")
    \/ \E o \in OrderIds, st \in AdminStatuses, ok \in OkSets :
          UpdateOrderStatus(o, st, ok)
    \/ \E o \in OrderIds, u \in Users, ok \in OkSets : CancelOrder(o, u, ok)
    \/ \E o \in OrderIds, u \in Users : RequestReturn(o, u)
    \/ \E r \in 1..MaxReturns, st \in {"approved", "rejected"} :
          UpdateReturnStatus(r, st)

Spec == Init /\ [][Next]_vars

\* stock values and prices the admin sets while customers shop
CartStocks == {0, 2}
CartPrices == {15}

\* the carts: user 1 adds, updates and removes lines, empties the cart and
\* checks out one order; user 2 keeps a line of product 1; the admin changes
\* the stock; two requests of user 1 may run getOrCreateCartId at once
NextCart ==
    \/ \E u \in Users, p \in Products, q \in 0..MaxQty :
          /\ Len(orders) < MaxLifecycleOrders
          /\ u = 2 => p = 1
          /\ AddItem(u, p, q)
    \/ \E owner \in Users, p \in Products, q \in 0..2 :
          Len(orders) < MaxLifecycleOrders /\ UpdateItem(1, owner, p, q)
    \/ \E owner \in Users, p \in Products :
          Len(orders) < MaxLifecycleOrders /\ RemoveItem(1, owner, p)
    \/ EmptyCart(1)
    \/ \E p \in Products, n \in CartStocks \cup {Null},
          pr \in CartPrices \cup {Null} :
          Len(orders) < MaxLifecycleOrders /\ UpdateProduct(p, n, pr)
    \/ GetCartSelect(1)
    \/ GetCartInsert(1)
    \/ \E a \in 0..1, f \in {"", "https://shop"}, up \in BOOLEAN :
          Len(orders) < MaxLifecycleOrders /\ Checkout(1, a, f, up)
    \/ \E a \in 0..1, f \in {"", "https://shop"}, k \in 0..1 :
          Len(orders) < MaxLifecycleOrders
          /\ CheckoutItemInsertFails(1, a, f, k)

SpecCart == Init /\ [][NextCart]_vars

\* amounts of the stored rows getOrderById is applied to
Amounts == {0, 20, 80, 100}

\* one stored order whose total, total_paid and discount_amount take every
\* combination of the amounts and NULL
InitTotals ==
    /\ InitOther
    /\ \E t \in Amounts, paid \in Amounts \cup {Null},
          disc \in Amounts \cup {Null} :
          orders = <<[user_id |-> 1, status |-> "completed", total |-> t,
                      total_paid |-> paid, discount_amount |-> disc,
                      promotion_code |-> NullCode]>>

\* reads of the stored orders
NextTotals == \E o \in OrderIds : GetOrderById(o)

SpecTotals == InitTotals /\ [][NextTotals]_vars

\* the admin sets order o to returned again while the provider confirms
\* every refund it is asked for
RetryRefund(o) ==
    /\ o \in 1..Len(orders)
    /\ UpdateOrderStatus(o, "returned", Range(RefundAttempts(o)))

\* the lifecycle in which the admin keeps retrying the return of an order
\* that has a payment to refund, and the provider is available in the end
SpecRetry ==
    /\ Init
    /\ [][Next]_vars
    /\ \A o \in OrderIds : WF_vars(RetryRefund(o))

\* items and totals of the bodies of POST /orders
BodyItems ==
    {<<>>} \cup {<<[product_id |-> p, quantity |-> 1, price |-> pr]>> :
                    p \in Products, pr \in {1, 10}}
BodyTotals == {0, 10}

\* the reads of the addItem calls in flight
AddReads ==
    [user : Users, product : Products, quantity : 1..MaxQty,
     seen : 1..MaxStock]

\* calls of one customer that interleave: the admin restocks, the customer
\* fills the cart while a second addItem of theirs is in flight, checks out
\* one order or posts it directly, pays; the order is cancelled by two calls
\* at once and set to returned by two calls at once
NextCalls ==
    \/ \E p \in Products, q \in 1..MaxQty :
          Len(orders) < MaxLifecycleOrders /\ AddItem(1, p, q)
    \/ \E p \in Products :
          Len(orders) < MaxLifecycleOrders /\ UpdateProduct(p, MaxStock, Null)
    \/ \E p \in Products, q \in 1..MaxQty :
          Len(orders) < MaxLifecycleOrders /\ AddItemRead(1, p, q)
    \/ \E r \in AddReads : AddItemWrite(r)
    \/ Len(orders) < MaxLifecycleOrders /\ Checkout(1, 1, "https://shop", TRUE)
    \/ \E items \in BodyItems, total \in BodyTotals :
          Len(orders) < MaxLifecycleOrders /\ CreateOrder(1, items, total)
    \/ \E s \in SessionIds : PaySession(s, "none")
    \/ \E s \in SessionIds : HandleWebhook(s, "checkout.session.completed", "none")
    \/ \E o \in OrderIds, ok \in OkSets :
          UpdateOrderStatus(o, "processing", ok)
    \/ \E o \in OrderIds, ok \in OkSets :
          UpdateOrderStatus(o, "returned", ok)
    \/ \E o \in OrderIds : UpdateOrderStatusSelect(o)
    \/ \E o \in OrderIds, ok \in OkSets : UpdateOrderStatusRefund(o, ok)
    \/ \E o \in OrderIds, ok \in OkSets : CancelOrder(o, 1, ok)
    \/ \E o \in OrderIds : CancelOrderCheck(o, 1)
    \/ \E o \in OrderIds, ok \in OkSets : CancelOrderWrite(o, ok)

SpecCalls == Init /\ [][NextCalls]_vars

\* ----------------------------------------------- payment reconciliation
\* completed payments rows of order o
CompletedRowsOf(o) ==
    {i \in 1..Len(payments) : /\ payments[i].order_id = o
                              /\ payments[i].status = "completed"}

\* C1: however often the checkout-completed event of a paid session is
\* delivered, one payments row in status completed carries that session's
\* payment intent (every delivery after the one that recorded it is a no-op).
C1_EventRecordedOnce ==
    \A s \in 1..Len(sessions) :
        sessions[s].paid /\ sessions[s].payment_intent # Null =>
            Cardinality({i \in 1..Len(payments) :
                /\ payments[i].transaction_id = sessions[s].payment_intent
                /\ payments[i].status = "completed"}) <= 1

\* C2: in every reachable state each order has at most one payments row in
\* status completed.
C2_OneCompletedPaymentPerOrder ==
    \A o \in 1..Len(orders) : Cardinality(CompletedRowsOf(o)) <= 1

\* C3: once an order has total_paid and discount_amount set and a completed
\* payment, no later step changes its total_paid or discount_amount.
C3_NoDoubleCapture ==
    [][\A o \in 1..Len(orders) :
          (/\ orders[o].total_paid # Null
           /\ orders[o].discount_amount # Null
           /\ CompletedRowsOf(o) # {})
          => /\ orders'[o].total_paid = orders[o].total_paid
             /\ orders'[o].discount_amount = orders[o].discount_amount]_vars

\* quantity of product p over all order_items rows
OrderedQuantity(p) ==
    SumSeq([k \in 1..Len(order_items) |->
              IF order_items[k].product_id = p
              THEN order_items[k].quantity ELSE 0])

\* C4: the quantity of a product over the orders that checkout created never
\* exceeds the product's available stock.
C4_NoOversell ==
    \A p \in Products : OrderedQuantity(p) <= InitStock

\* ------------------------------------------------------- cancellation
\* the statuses in which an order cannot be cancelled
NotCancellable ==
    {"shipped", "completed", "returned", "cancelled", "awaiting_return"}

\* payments rows that pass from completed to refunded in a step
MarkedRefunded ==
    {i \in 1..Len(payments) : /\ payments[i].status = "completed"
                              /\ payments'[i].status = "refunded"}

\* payments rows a list of refund calls names / names as confirmed
Called(calls) == {calls[k].payment : k \in DOMAIN calls}
Confirmed(calls) == {calls[k].payment : k \in {j \in DOMAIN calls : calls[j].ok}}

\* completed payments rows of order o that carry a transaction id
RefundableRowsOf(o) ==
    {i \in CompletedRowsOf(o) : payments[i].transaction_id # Null}

RECURSIVE AmountOf(_)
AmountOf(rows) ==
    IF rows = {} THEN 0
    ELSE LET i == CHOOSE i \in rows : TRUE
         IN  payments[i].amount + AmountOf(rows \ {i})

\* quantity of product p over the order_items rows of order o
ItemQuantity(o, p) ==
    SumSeq([k \in 1..Len(order_items) |->
              IF order_items[k].order_id = o /\ order_items[k].product_id = p
              THEN order_items[k].quantity ELSE 0])

\* C5: cancelOrder on an order in status shipped, completed, returned,
\* cancelled or awaiting_return throws, requests no refund, and leaves the
\* orders, the stock, the payments and the provider's refunds as they were.
C5_CancelRejectedChangesNothing ==
    /\ [](\A o \in 1..Len(orders), u \in Users, ok \in OkSets, m \in BOOLEAN :
            orders[o].status \in NotCancellable =>
                /\ ~CancelOrderResult(o, u, ok, m).ok
                /\ CancelOrderResult(o, u, ok, m).calls = <<>>)
    /\ [][\A o \in OrderIds, u \in Users, ok \in OkSets :
            (/\ o \in 1..Len(orders)
             /\ orders[o].status \in NotCancellable
             /\ CancelOrder(o, u, ok))
            => UNCHANGED <<orders, stock, payments, refundCount>>]_vars

\* C5 witness: a shipped order with items and a refundable completed payment
C5_Witness ==
    \E o \in 1..Len(orders) :
        /\ orders[o].status = "shipped"
        /\ RefundableRowsOf(o) # {}
        /\ \E p \in Products : ItemQuantity(o, p) > 0

\* C6: a cancelOrder that succeeds sets the order's status to cancelled and
\* adds to every product's stock the quantity of the order's items of that
\* product (nothing for a product the order does not contain).
C6_CancelRestocksEveryItemOnce ==
    [][\A o \in OrderIds, u \in Users, ok \in OkSets :
          (CancelOrderResult(o, u, ok, TRUE).ok /\ CancelOrder(o, u, ok))
          => /\ orders'[o].status = "cancelled"
             /\ \A p \in Products : stock'[p] = stock[p] + ItemQuantity(o, p)]_vars

\* C6 witness: a cancelled order, the stock of its product raised by its
\* quantity and the stock of the product it does not contain as before
C6_Witness ==
    \E o \in 1..Len(orders), p \in Products, p2 \in Products :
        /\ orders[o].status = "cancelled"
        /\ ItemQuantity(o, p) > 0
        /\ stock[p] = InitStock + ItemQuantity(o, p)
        /\ ItemQuantity(o, p2) = 0
        /\ stock[p2] = InitStock

\* C7 as claimed: a cancelOrder that succeeds requests a refund for every
\* completed payment of the order, marks exactly the confirmed ones refunded
\* and returns the sum of their amounts as refundedAmount.
C7_RefundsEveryCompletedPayment ==
    [][\A o \in OrderIds, u \in Users, ok \in OkSets :
          (CancelOrderResult(o, u, ok, TRUE).ok /\ CancelOrder(o, u, ok))
          => LET res == CancelOrderResult(o, u, ok, TRUE)
             IN  /\ Called(res.calls) = CompletedRowsOf(o)
                 /\ MarkedRefunded = Confirmed(res.calls)
                 /\ res.refundedAmount = AmountOf(MarkedRefunded)]_vars

\* C7 as amended: a cancelOrder that succeeds requests a refund for every
\* completed payment of the order that has a transaction id, marks exactly
\* the confirmed ones refunded and returns the sum of their amounts.
C7_RefundsEveryRefundablePayment ==
    [][\A o \in OrderIds, u \in Users, ok \in OkSets :
          (CancelOrderResult(o, u, ok, TRUE).ok /\ CancelOrder(o, u, ok))
          => LET res == CancelOrderResult(o, u, ok, TRUE)
             IN  /\ Called(res.calls) = RefundableRowsOf(o)
                 /\ MarkedRefunded = Confirmed(res.calls)
                 /\ res.refundedAmount = AmountOf(MarkedRefunded)]_vars

\* C7 witness: a cancelled order with a refunded payment of a positive amount
C7_Witness ==
    \E o \in 1..Len(orders), i \in 1..Len(payments) :
        /\ orders[o].status = "cancelled"
        /\ payments[i].order_id = o
        /\ payments[i].status = "refunded"
        /\ payments[i].amount > 0
        /\ refundCount[payments[i].transaction_id] > 0

\* C8: a payment passes from completed to refunded only in a step in which
\* the provider confirmed a refund of its transaction id; in cancelOrder and
\* in updateOrderStatus to returned a payment whose refund call fails stays
\* completed, and every completed payment with a transaction id is attempted
\* and marked when confirmed, whatever happens to the others.
C8_RefundedOnlyWhenConfirmed ==
    [][/\ \A i \in MarkedRefunded :
             /\ payments[i].transaction_id # Null
             /\ refundCount'[payments[i].transaction_id] >
                    refundCount[payments[i].transaction_id]
       /\ \A o \in 1..Len(orders), ok \in OkSets :
             /\ UpdateOrderStatus(o, "returned", ok) =>
                   /\ \A i \in RefundableRowsOf(o) :
                         payments'[i].status =
                             IF i \in ok THEN "refunded" ELSE "completed"
                   /\ \A m \in BOOLEAN :
                         Called(UpdateOrderStatusResult(o, "returned", ok, m).calls)
                             = RefundableRowsOf(o)
             /\ (/\ orders[o].status \notin NotCancellable
                 /\ CancelOrder(o, orders[o].user_id, ok)) =>
                   /\ \A i \in RefundableRowsOf(o) :
                         payments'[i].status =
                             IF i \in ok THEN "refunded" ELSE "completed"
                   /\ \A m \in BOOLEAN :
                         Called(CancelOrderResult(o, orders[o].user_id, ok, m).calls)
                             = RefundableRowsOf(o)]_vars

\* C8 witness: of two payments of an order the first stayed completed (its
\* refund failed) and the later one was refunded in the same loop
C8_Witness ==
    \E i \in 1..Len(payments), j \in 1..Len(payments) :
        /\ j < i
        /\ payments[j].order_id = payments[i].order_id
        /\ payments[j].status = "completed"
        /\ payments[j].transaction_id # Null
        /\ payments[i].status = "refunded"
        /\ orders[payments[i].order_id].status \in {"returned", "cancelled"}

C10_RefundOnlyAtReturned ==
    [][/\ \A o \in OrderIds, u \in Users :
             RequestReturn(o, u) =>
                 payments' = payments /\ refundCount' = refundCount
       /\ \A r \in 1..MaxReturns, st \in {"approved", "rejected"} :
             UpdateReturnStatus(r, st) =>
                 /\ payments' = payments
                 /\ refundCount' = refundCount
                 /\ (r \in 1..Len(returns) /\ st = "approved") =>
                        orders'[returns[r].order_id].status = "awaiting_return"
       /\ \A i \in MarkedRefunded :
             orders[payments[i].order_id].status = "awaiting_return" =>
                 orders'[payments[i].order_id].status = "returned"]_vars

\* C10 witness: an approved return whose order awaits the return and still
\* has its refundable completed payment
C10_Witness ==
    \E r \in 1..Len(returns) :
        /\ returns[r].status = "approved"
        /\ orders[returns[r].order_id].status = "awaiting_return"
        /\ RefundableRowsOf(returns[r].order_id) # {}

\* the returns rows as they are after requestReturn(o, u) succeeded
ReturnsWithRequest(o, u) ==
    Append(returns, [order_id |-> o, user_id |-> u,
                     total_amount |-> orders[o].total_paid,
                     status |-> "pending"])

\* C11: requestReturn succeeds exactly when the order exists, belongs to the
\* caller and is shipped or completed; it then adds one returns row in status
\* pending whose total_amount is the order's total_paid; in every other case
\* it throws and the returns table is as before.
C11_RequestReturnContract ==
    /\ [](\A o \in OrderIds, u \in Users :
            RequestReturnResult(o, u).ok <=>
                /\ o \in 1..Len(orders)
                /\ orders[o].user_id = u
                /\ orders[o].status \in {"shipped", "completed"})
    /\ [][\A o \in OrderIds, u \in Users :
            RequestReturn(o, u) =>
                returns' = IF RequestReturnResult(o, u).ok
                           THEN ReturnsWithRequest(o, u)
                           ELSE returns]_vars

\* C11 witness: a pending return that carries the total_paid of its paid order
C11_Witness ==
    \E r \in 1..Len(returns) :
        /\ returns[r].status = "pending"
        /\ returns[r].total_amount # Null
        /\ returns[r].total_amount = orders[returns[r].order_id].total_paid
        /\ returns[r].user_id = orders[returns[r].order_id].user_id
        /\ orders[returns[r].order_id].status \in {"shipped", "completed"}

\* C12: a return that is approved or rejected keeps that status in every
\* later step, and the status of a return is always pending, approved or
\* rejected.
C12_ReturnStatusTerminal ==
    /\ [](\A r \in 1..Len(returns) :
            returns[r].status \in {"pending", "approved", "rejected"})
    /\ [][\A r \in 1..Len(returns) :
            returns[r].status \in {"approved", "rejected"} =>
                returns'[r].status = returns[r].status]_vars

\* C13: updateReturnStatus(r, rejected) changes the status of return r and
\* nothing else: every order, payment, stock and provider refund is as before.
C13_RejectChangesOnlyTheReturn ==
    [][\A r \in 1..MaxReturns :
          UpdateReturnStatus(r, "rejected") =>
              /\ orders' = orders
              /\ payments' = payments
              /\ stock' = stock
              /\ refundCount' = refundCount
              /\ r \in 1..Len(returns) =>
                     returns' = [returns EXCEPT ![r].status = "rejected"]]_vars

\* C13 witness: a rejected return whose order is still shipped or completed
C13_Witness ==
    \E r \in 1..Len(returns) :
        /\ returns[r].status = "rejected"
        /\ orders[returns[r].order_id].status \in {"shipped", "completed"}

\* C14: an order in status returned stays in status returned in every step.
C14_ReturnedIsTerminal ==
    [][\A o \in 1..Len(orders) :
          orders[o].status = "returned" => orders'[o].status = "returned"]_vars

\* C15: a cancelOrder step that moves an order into status cancelled starts
\* from status pending or processing.
C15_CancelledOnlyFromPendingOrProcessing ==
    [][\A o \in 1..Len(orders), u \in Users, ok \in OkSets :
          (/\ CancelOrder(o, u, ok)
           /\ orders[o].status # "cancelled"
           /\ orders'[o].status = "cancelled")
          => orders[o].status \in {"pending", "processing"}]_vars

\* C16: an updateReturnStatus(r, approved) step that moves the order into
\* status awaiting_return starts from order status shipped or completed.
C16_AwaitingReturnOnlyFromShippedOrCompleted ==
    [][\A r \in 1..Len(returns) :
          (/\ UpdateReturnStatus(r, "approved")
           /\ orders[returns[r].order_id].status # "awaiting_return"
           /\ orders'[returns[r].order_id].status = "awaiting_return")
          => orders[returns[r].order_id].status \in {"shipped", "completed"}]_vars

\* ------------------------------------------- payment completion events
Completed == "checkout.session.completed"

\* C17: a handleWebhook step for a completion event applies its three
\* changes together or not at all: afterwards the order is completed, a
\* completed payments row for it was added and its totals are those of the
\* session, or orders and payments are as before.
C17_PaymentEventAllOrNothing ==
    [][\A s \in 1..Len(sessions), f \in Range(WebhookSteps) :
          HandleWebhook(s, Completed, f) =>
              LET o == sessions[s].orderId
              IN  \/ /\ orders'[o].status = "completed"
                     /\ Len(payments') = Len(payments) + 1
                     /\ payments'[Len(payments')].order_id = o
                     /\ payments'[Len(payments')].status = "completed"
                     /\ orders'[o].total_paid * 100 = sessions[s].amount_total
                     /\ orders'[o].discount_amount * 100 = sessions[s].amount_discount
                     /\ orders'[o].promotion_code = sessions[s].promotion_code
                  \/ /\ orders' = orders
                     /\ payments' = payments]_vars

CartGone(u) == u \notin hasCart /\ \A p \in Products : cart[u][p] = 0

\* a line of the cart of user u is removed or reduced in the step
CartItemsRemoved(u) == \E p \in Products : cart'[u][p] < cart[u][p]

C21_EmptyCartCheckoutFails ==
    [][\A u \in Users, up \in BOOLEAN :
          (CartLines(u) = <<>> /\ Checkout(u, 1, "https://shop", up))
             => /\ ~CheckoutResult(u, 1, "https://shop", up).ok
                /\ orders' = orders
                /\ order_items' = order_items
                /\ sessions' = sessions]_vars

\* C21 witness: the state a checkout on an empty cart leaves: the cart row
\* it created lazily, no line, no order and no session
C21_Witness ==
    /\ 1 \in hasCart
    /\ CartLines(1) = <<>>
    /\ orders = <<>>
    /\ order_items = <<>>
    /\ sessions = <<>>

\* C22: checkout with a valid address and frontend URL on a cart in which
\* the quantity of some line, at any position, exceeds the stock the product
\* has now throws, and the step creates no order and no order item.
C22_CheckoutRevalidatesStock ==
    [][\A u \in Users, up \in BOOLEAN :
          (/\ \E p \in Products : cart[u][p] > stock[p]
           /\ Checkout(u, 1, "https://shop", up))
             => /\ ~CheckoutResult(u, 1, "https://shop", up).ok
                /\ orders' = orders
                /\ order_items' = order_items]_vars

\* C22 witness: the stock of the product of the second line dropped below
\* the line's quantity after the line was added, the first line is within
\* stock, and no order exists
C22_Witness ==
    /\ Len(CartLines(1)) = 2
    /\ cart[1][CartLines(1)[1]] <= stock[CartLines(1)[1]]
    /\ cart[1][CartLines(1)[2]] > stock[CartLines(1)[2]]
    /\ 1 \in hasCart
    /\ orders = <<>>
    /\ order_items = <<>>

\* price * quantity over the order_items rows of order o
ItemsTotal(o) ==
    SumSeq([k \in 1..Len(order_items) |->
              IF order_items[k].order_id = o
              THEN order_items[k].price * order_items[k].quantity ELSE 0])

\* C23: checkout creates an order with all its order items or not at all:
\* in every state the order items of each order add up to the total the
\* order row was created with.
C23_OrderCreatedWithAllItems ==
    \A o \in 1..Len(orders) : ItemsTotal(o) = orders[o].total

\* C24: addItem with a positive quantity sets the line of the product to the
\* prior quantity plus the added one (the added one for a product not yet in
\* the cart) when the sum is within the product's stock; otherwise it throws
\* the stock error and every cart stays as it was.
C24_AddItemIsAdditive ==
    [][\A u \in Users, p \in Products, q \in 1..MaxQty :
          AddItem(u, p, q) =>
             IF cart[u][p] + q <= stock[p]
             THEN /\ AddItemError(u, p, q) = "none"
                  /\ cart' = [cart EXCEPT ![u][p] = cart[u][p] + q]
             ELSE /\ AddItemError(u, p, q) = "stock"
                  /\ cart' = cart]_vars

\* C24 witness: user 2, who only adds, holds a line whose quantity is the
\* sum of two adds
C24_Witness ==
    /\ cart[2][1] = 2 * MaxQty
    /\ stock[1] >= 2 * MaxQty

\* C25: updateItem replaces the quantity of a line of the caller's own cart
\* when the quantity is positive and within the product's stock; it throws
\* not-found for a line of another user's cart or an absent line, the stock
\* error for a quantity above the stock, and in every failing case every
\* cart stays as it was.
C25_UpdateItemReplaces ==
    [][\A u \in Users, owner \in Users, p \in Products, q \in 0..2 :
          UpdateItem(u, owner, p, q) =>
             /\ (q > 0 /\ owner = u /\ cart[u][p] > 0 /\ q <= stock[p])
                   => /\ UpdateItemError(u, owner, p, q) = "none"
                      /\ cart' = [cart EXCEPT ![u][p] = q]
             /\ (q > 0 /\ (owner # u \/ cart[owner][p] = 0))
                   => /\ UpdateItemError(u, owner, p, q) = "notfound"
                      /\ cart' = cart
             /\ (q > 0 /\ owner = u /\ cart[u][p] > 0 /\ q > stock[p])
                   => /\ UpdateItemError(u, owner, p, q) = "stock"
                      /\ cart' = cart
             /\ q <= 0
                   => /\ UpdateItemError(u, owner, p, q) = "invalid"
                      /\ cart' = cart]_vars

\* C25 witness: user 1 holds a line whose quantity equals the stock and is
\* above what one add gives, next to a line of the same product in the cart
\* of user 2
C25_Witness ==
    /\ cart[1][1] = 2
    /\ stock[1] = 2
    /\ cart[2][1] = 1
    /\ cart[1][2] = 1

\* C26: removeItem and emptyCart applied again to the state they produce
\* leave the cart lines as they are; removeItem throws nothing, and for an
\* absent line or a line of another user's cart it changes no cart line.
C26_RemovalIsIdempotent ==
    [][/\ \A u \in Users, owner \in Users, p \in Products :
             RemoveItem(u, owner, p) =>
                /\ RemoveItemError(u, owner, p) = "none"
                /\ CartAfterRemove(u, owner, p)' = cart'
                /\ (owner # u \/ cart[owner][p] = 0) => cart' = cart
       /\ \A u \in Users :
             EmptyCart(u) =>
                /\ CartLines(u)' = <<>>
                /\ CartAfterDelete(u)' = cart'
                /\ \A v \in Users \ {u} : cart'[v] = cart[v]]_vars

\* C26 witness: user 1 has a cart row and no line, and the line of user 2,
\* which user 1 tried to remove, is still there
C26_Witness ==
    /\ 1 \in hasCart
    /\ CartLines(1) = <<>>
    /\ cart[2][1] > 0

\* C27: no user ever has more than one cart row.
C27_OneCartPerUser == \A u \in Users : extraCarts[u] = 0

\* ------------------------------------------------------- order totals
\* C28: in every state the total_paid and the discount_amount of each order
\* are both NULL or both set.
C28_TotalsSetTogether ==
    \A o \in 1..Len(orders) :
        (orders[o].total_paid = Null) <=> (orders[o].discount_amount = Null)

\* C28 witness: one order whose payment event was applied, with both fields
\* set (a payment without discount stores discount_amount 0), next to an
\* order with no payment event and both fields NULL
C28_Witness ==
    \E o \in 1..Len(orders), n \in 1..Len(orders) :
        /\ orders[o].total_paid # Null
        /\ orders[o].discount_amount = 0
        /\ orders[n].total_paid = Null
        /\ orders[n].discount_amount = Null

\* C29: no step changes an order_items row; a step of updateOrderStatus (to
\* any status), requestReturn, updateReturnStatus or the payment event
\* handler leaves order_items and every product's stock as they were; and a
\* step that raises a stock is a step of cancelOrder.
C29_ItemsFrozenStockOnlyOnCancel ==
    [][/\ Len(order_items') >= Len(order_items)
       /\ \A k \in 1..Len(order_items) : order_items'[k] = order_items[k]
       /\ (\/ \E o \in OrderIds, st \in AdminStatuses, ok \in OkSets :
                UpdateOrderStatus(o, st, ok)
           \/ \E o \in OrderIds, u \in Users : RequestReturn(o, u)
           \/ \E r \in 1..MaxReturns, st \in {"approved", "rejected"} :
                UpdateReturnStatus(r, st)
           \/ \E s \in SessionIds, e \in EventTypes : HandleWebhook(s, e, "none"))
             => /\ stock' = stock
                /\ order_items' = order_items
       /\ (\E p \in Products : stock'[p] > stock[p])
             => \E o \in OrderIds, u \in Users, ok \in OkSets :
                   CancelOrder(o, u, ok)]_vars

\* C29 witness: an order set to returned, its payment refunded, and the
\* stock of the product of one of its items still what it was
C29_Witness ==
    \E k \in 1..Len(order_items) :
        LET o == order_items[k].order_id
        IN  /\ orders[o].status = "returned"
            /\ \E i \in 1..Len(payments) :
                  payments[i].order_id = o /\ payments[i].status = "refunded"
            /\ stock[order_items[k].product_id] = InitStock

OpenQuantity(p) ==
    SumSeq([k \in 1..Len(order_items) |->
              IF /\ order_items[k].product_id = p
                 /\ orders[order_items[k].order_id].status # "cancelled"
              THEN order_items[k].quantity ELSE 0])

\* C31: placing an order takes its quantities out of the stock and
\* cancelling it puts them back: in every state the stock of a product is
\* its first stock less the quantities of the orders that are not cancelled,
\* so a checkout followed by cancelOrder leaves the stock where it was.
C31_StockFollowsOrders ==
    \A p \in Products : stock[p] = InitStock - OpenQuantity(p)

\* C32: cancelOrder for an order that does not exist or is not the caller's
\* throws not-found, whatever the status of the order, and the step changes
\* no order, no stock, no payment and requests no refund.
C32_CancelByStrangerChangesNothing ==
    [][\A o \in OrderIds, u \in Users, ok \in OkSets :
          (/\ o \notin 1..Len(orders) \/ orders[o].user_id # u
           /\ CancelOrder(o, u, ok))
             => /\ CancelOrderErrorKind(o, u) = "notfound"
                /\ ~CancelOrderResult(o, u, ok, TRUE).ok
                /\ CancelOrderResult(o, u, ok, TRUE).calls = <<>>
                /\ orders' = orders
                /\ stock' = stock
                /\ payments' = payments
                /\ refundCount' = refundCount]_vars

\* C32 witness: an order of user 1 that its owner could cancel, with a
\* completed payment, which a cancelOrder of user 2 has left as it is
C32_Witness ==
    \E o \in 1..Len(orders) :
        /\ orders[o].user_id = 1
        /\ orders[o].status = "processing"
        /\ RefundAttempts(o) # <<>>
        /\ \A p \in Products : stock[p] = InitStock

\* ------------------------------------------------------ refund retries
\* payment row i is a completed payment with a transaction id of order o,
\* and order o is returned
AwaitsRefund(o, i) ==
    /\ o \in 1..Len(orders)
    /\ i \in 1..Len(payments)
    /\ orders[o].status = "returned"
    /\ payments[i].order_id = o
    /\ payments[i].status = "completed"
    /\ payments[i].transaction_id # Null

\* payment row i is marked refunded
IsRefunded(i) ==
    /\ i \in 1..Len(payments)
    /\ payments[i].status = "refunded"

\* C33: in a refund loop of updateOrderStatus(returned) or cancelOrder a row
\* whose refund the provider rejects stays completed and a row whose refund
\* it confirms becomes refunded, also when an earlier loop failed on it; and
\* when the admin keeps retrying and the provider is available in the end,
\* every completed payment with a transaction id of a returned order is
\* eventually refunded.
C33_FailedRefundIsRetried ==
    /\ [][\A o \in OrderIds, ok \in OkSets :
             (\/ UpdateOrderStatus(o, "returned", ok)
              \/ \E u \in Users : ~CancelOrderError(o, u) /\ CancelOrder(o, u, ok))
                => \A i \in Range(RefundAttempts(o)) :
                      payments'[i].status =
                         IF i \in ok THEN "refunded" ELSE "completed"]_vars
    /\ \A o \in OrderIds, i \in 1..MaxPayments :
          AwaitsRefund(o, i) ~> IsRefunded(i)

\* C33 witness: a returned order whose refund failed: its payment is still
\* completed and the provider holds no refund of it
C33_Witness ==
    \E o \in 1..Len(orders), i \in 1..Len(payments) :
        /\ AwaitsRefund(o, i)
        /\ refundCount[payments[i].transaction_id] = 0

\* -------------------------------------------------------- order contents
\* C34: a checkout that passes its checks appends one order, in status
\* pending and of the caller, and one order item per cart line, in order,
\* with the line's product and quantity and the price the product has at
\* the checkout; the stored total is the sum of quantity times that price
\* over these items.
C34_OrderSnapshotsCart ==
    [][\A u \in Users, up \in BOOLEAN :
          (/\ ~CheckoutError(u, 1, "https://shop")
           /\ Checkout(u, 1, "https://shop", up))
             => LET o == Len(orders) + 1
                    lines == CartLines(u)
                    n == Len(order_items)
                IN  /\ Len(orders') = o
                    /\ orders'[o].status = "pending"
                    /\ orders'[o].user_id = u
                    /\ Len(order_items') = n + Len(lines)
                    /\ \A i \in 1..Len(lines) :
                          /\ order_items'[n + i].order_id = o
                          /\ order_items'[n + i].product_id = lines[i]
                          /\ order_items'[n + i].quantity = cart[u][lines[i]]
                          /\ order_items'[n + i].price = price[lines[i]]
                    /\ orders'[o].total =
                          SumSeq([i \in 1..Len(lines) |->
                                    order_items'[n + i].quantity *
                                    order_items'[n + i].price])]_vars

\* C34 witness: a pending order with a payment session and an item whose
\* price is the one the admin set after the start, not the first price, and
\* whose total is that of its items
C34_Witness ==
    \E k \in 1..Len(order_items), s \in 1..Len(sessions) :
        LET o == order_items[k].order_id
        IN  /\ orders[o].status = "pending"
            /\ sessions[s].orderId = o
            /\ order_items[k].price # Price[order_items[k].product_id]
            /\ order_items[k].price = price[order_items[k].product_id]
            /\ orders[o].total = ItemsTotal(o)

\* ------------------------------------------------- interleaved handlers
\* C35: of the cancelOrder calls on one order one succeeds: a call that
\* sets the order to cancelled and puts its items back in stock never acts
\* on an order that is cancelled already, so no item is put back twice.
C35_CancelledAndRestockedOnce ==
    [][\A o \in OrderIds, ok \in OkSets :
          (/\ o \in 1..Len(orders)
           /\ orders[o].status = "cancelled"
           /\ \/ CancelOrderWrite(o, ok)
              \/ \E u \in Users : CancelOrder(o, u, ok))
             => stock' = stock]_vars

\* the payment rows of payment intent t
RowsOfIntent(t) ==
    {i \in 1..Len(payments) : payments[i].transaction_id = t}

\* C36: the provider confirms at most one refund per payment: the refunds
\* it holds for a payment intent never outnumber the payment rows of that
\* intent.
C36_OneRefundPerPayment ==
    \A t \in DOMAIN refundCount :
        refundCount[t] <= Cardinality(RowsOfIntent(t))

\* C37: the checkout-completed event of a session of an order that
\* cancelOrder has cancelled does not leave the order completed with a
\* completed payment of a charged amount.
C37_NoChargeForCancelledOrder ==
    [][\A s \in SessionIds :
          (/\ s \in 1..Len(sessions)
           /\ orders[sessions[s].orderId].status = "cancelled"
           /\ HandleWebhook(s, "checkout.session.completed", "none"))
             => ~(/\ orders'[sessions[s].orderId].status = "completed"
                  /\ \E i \in 1..Len(payments') :
                        /\ payments'[i].order_id = sessions[s].orderId
                        /\ payments'[i].status = "completed"
                        /\ payments'[i].amount > 0)]_vars

\* the order_items rows of order o
ItemRowsOf(o) ==
    SelectSeq(order_items, LAMBDA it : it.order_id = o)

\* C38: in every state the stored total of each order, created by checkout
\* or posted directly, is the sum of quantity times unit price over its
\* order items.
C38_TotalIsSumOfItems ==
    \A o \in 1..Len(orders) :
        orders[o].total =
            SumSeq([k \in 1..Len(ItemRowsOf(o)) |->
                      ItemRowsOf(o)[k].quantity * ItemRowsOf(o)[k].price])

\* C39: the write of an addItem call adds the call's quantity to the
\* quantity the line has then, within the stock: no add of another call of
\* the same user is lost.
C39_NoLostAdd ==
    [][\A r \in AddReads :
          AddItemWrite(r) =>
             /\ cart'[r.user][r.product] =
                   cart[r.user][r.product] + r.quantity
             /\ cart'[r.user][r.product] <= stock[r.product]]_vars

====
